---- MODULE Spec2Model ----
(***************************************************************************)
(* Model of src/main.py: print_directory_structure(startpath, indent), a   *)
(* recursive depth-first directory lister.  Strings are sequences of       *)
(* character codes, paths are sequences of components, the file system is  *)
(* a finite tree of named entries (files, directories, and symbolic links  *)
(* to an ancestor directory), and the Python call stack is a sequence of   *)
(* frames.                                                                 *)
(***************************************************************************)
EXTENDS Integers, Sequences, FiniteSets, TLC

\* ------------------------------------------------------------------ bounds
MaxNodes == 3

\* The interpreter's recursion limit, scaled to the model: deep enough for
\* every tree without a cycle (the root's frame plus one frame per entry).
RecursionLimit == MaxNodes + 1

\* The number of symbolic links the operating system follows while resolving
\* one path (SYMLOOP_MAX), scaled to the model.
SymlinkLimit == 2

\* ------------------------------------------------------- program constants
Dot == 46
Pipe == 124
Dash == 45
IndentStep == 4

\* ------------------------------------------------------------ the inputs
\* Entry names: ".a", "B", "a", "b"
Names == { <<46, 97>>, <<66>>, <<97>>, <<98>> }
\* Base name of the root argument: "r" or ".h"
RootNames == { <<114>>, <<46, 104>> }
\* Initial indent argument
Indents == {0, 2}
\* Components of the current working directory: /w
Cwd == << <<119>> >>

\* what a path that names nothing resolves to
NoNode == 0 - 1

VARIABLES
    nodeCount,   \* entries below the root are 1..nodeCount, the root is 0
    parent,      \* parent[i]: the directory holding entry i
    name,        \* name[i]: base name of entry i
    kind,        \* kind[i] in {"file", "dir", "link"}
    target,      \* target[i]: the directory a link resolves to (i itself otherwise)
    denied,      \* the directory whose listing is refused, or NoNode
    rootExists,  \* whether the root argument names an existing directory
    rootName,    \* base name of the root argument
    indent0,     \* the indent argument of the outermost call
    stack,       \* call stack of print_directory_structure, innermost last
    pc,          \* "running", "raising", "done", "error"
    out,         \* standard output, one string per line
    trace,       \* for each output line, the path of the entry it was printed for
    maxDepth,    \* the largest number of simultaneously active calls so far
    steps,       \* the number of steps this invocation has taken
    run,         \* 1 for the first invocation, 2 for the repeated one
    prev,        \* output of the first invocation, once it has ended
    prevPc       \* how the first invocation ended

fsvars == <<nodeCount, parent, name, kind, target, denied, rootExists, rootName, indent0>>
vars == <<nodeCount, parent, name, kind, target, denied, rootExists, rootName, indent0,
          stack, pc, out, trace, maxDepth, steps, run, prev, prevPc>>

\* ---------------------------------------------------------------- strings
Last(s) == s[Len(s)]
Front(s) == SubSeq(s, 1, Len(s) - 1)

\* '-' * n
Dashes(n) == [i \in 1..n |-> Dash]

\* str.__lt__: lexicographic by code point, a proper prefix comes first
RECURSIVE StrLess(_, _)
StrLess(a, b) ==
    IF a = <<>> THEN b # <<>>
    ELSE IF b = <<>> THEN FALSE
    ELSE IF a[1] # b[1] THEN a[1] < b[1]
    ELSE StrLess(Tail(a), Tail(b))

RECURSIVE Insert(_, _)
Insert(x, s) ==
    IF s = <<>> THEN <<x>>
    ELSE IF StrLess(x, s[1]) THEN <<x>> \o s
    ELSE <<s[1]>> \o Insert(x, Tail(s))

RECURSIVE Sorted(_)
Sorted(s) == IF s = <<>> THEN <<>> ELSE Insert(s[1], Sorted(Tail(s)))

\* sorted(os.listdir(startpath))
SortedItemsUnsorted(listing) == listing
SortedItemsButFirst(listing) ==
    IF listing = <<>> THEN <<>> ELSE <<listing[1]>> \o Sorted(Tail(listing))
SortedItems(listing) == Sorted(listing)

\* os.path.join(startpath, item)
Join(path, item) == Append(path, item)
\* os.path.abspath(startpath): a relative path is taken below the working directory
Abspath(path) == Cwd \o path
\* os.path.basename(path)
Basename(path) == Last(path)

\* os.path.basename(path).startswith('.')
IsHiddenNever(nm) == FALSE
IsHiddenDotOnly(nm) == nm = <<Dot>>
IsHidden(nm) == Len(nm) >= 1 /\ nm[1] = Dot

\* indent + 4
ChildIndentShort(indent) == indent + 2
ChildIndent(indent) == indent + IndentStep

\* '|' + '-' * indent + os.path.basename(os.path.abspath(startpath))
HeaderLine(path, indent) == <<Pipe>> \o Dashes(indent) \o Basename(Abspath(path))
\* '|' + '-' * (indent + 4) + item
FileLine(indent, item) == <<Pipe>> \o Dashes(indent + IndentStep) \o item

\* ------------------------------------------------------------ file system
Nodes == 1..nodeCount
Children(d) == {c \in Nodes : parent[c] = d}
Child(d, nm) ==
    IF \E c \in Children(d) : name[c] = nm
    THEN CHOOSE c \in Children(d) : name[c] = nm
    ELSE NoNode
KindOf(n) == IF n = 0 THEN "dir" ELSE IF n \in Nodes THEN kind[n] ELSE "none"

\* Path resolution by the operating system: the entry a path names and the
\* number of symbolic links followed on the way.  Resolution fails (ELOOP)
\* once more than SymlinkLimit links have been followed.
RECURSIVE Walk(_)
Walk(path) ==
    IF Len(path) = 1
    THEN [node |-> IF rootExists /\ path[1] = rootName THEN 0 ELSE NoNode, links |-> 0]
    ELSE LET w == Walk(Front(path))
             c == Child(w.node, Last(path))
         IN  IF w.node = NoNode \/ KindOf(w.node) # "dir" \/ c = NoNode
             THEN [node |-> NoNode, links |-> w.links]
             ELSE IF kind[c] = "link"
             THEN (IF w.links + 1 > SymlinkLimit
                   THEN [node |-> NoNode, links |-> w.links + 1]
                   ELSE [node |-> target[c], links |-> w.links + 1])
             ELSE [node |-> c, links |-> w.links]

Lookup(path) == Walk(path).node

\* os.path.isdir(path)
IsDirNever(path) == FALSE
IsDir(path) == Lookup(path) # NoNode /\ KindOf(Lookup(path)) = "dir"

\* os.listdir(startpath) raises OSError
ListdirRaisesNever(path) == FALSE
ListdirRaises(path) == KindOf(Lookup(path)) # "dir" \/ Lookup(path) = denied

\* the names os.listdir(startpath) returns, as a set: their order is unspecified
ListdirNames(path) == {name[c] : c \in Children(Lookup(path))}

Perms(S) == {s \in [1..Cardinality(S) -> S] : \A i, j \in 1..Cardinality(S) : i # j => s[i] # s[j]}

\* --------------------------------------------------------- initial states
Ancestors(p, i) ==
    LET RECURSIVE Up(_)
        Up(j) == IF j = 0 THEN {0} ELSE {j} \cup Up(p[j])
    IN Up(p[i])

\* Entries are numbered parent-first, siblings in name order: every tree shape
\* appears once.
ParentFns(n) ==
    {p \in [1..n -> 0..(n - 1)] :
        \A i \in 1..n : p[i] < i /\ (i > 1 => p[i - 1] <= p[i])}
KindFns(n, p) ==
    {k \in [1..n -> {"file", "dir"}] : \A i \in 1..n : p[i] # 0 => k[p[i]] = "dir"}
NameFns(n, p) ==
    {nm \in [1..n -> Names] :
        \A i \in 2..n : p[i - 1] = p[i] => StrLess(nm[i - 1], nm[i])}

\* the frame of a call print_directory_structure(path, indent) about to start
Frame(path, indent) == [path |-> path, indent |-> indent, at |-> "header", items |-> <<>>]

DefaultRoot == <<114>>
DefaultIndent == 0

\* What is special about a run: nothing, the root argument (its name and the
\* indent, or its not existing), one unreadable directory, or one entry that
\* is a symbolic link to a directory above it.  The runs with a special root
\* or a link are taken over the trees that leave one entry unused.
Plain(n, p, k) ==
    /\ kind = k /\ target = [i \in 1..n |-> i] /\ denied = NoNode
    /\ rootExists = TRUE
    /\ rootName = DefaultRoot /\ indent0 = DefaultIndent
OtherRoot(n, p, k) ==
    /\ n < MaxNodes
    /\ kind = k /\ target = [i \in 1..n |-> i] /\ denied = NoNode
    /\ rootExists = TRUE
    /\ rootName \in RootNames \ {DefaultRoot} /\ indent0 \in Indents \ {DefaultIndent}
MissingRoot(n, p, k) ==
    /\ n = 0
    /\ kind = k /\ target = [i \in 1..n |-> i] /\ denied = NoNode
    /\ rootExists = FALSE
    /\ rootName \in RootNames /\ indent0 \in Indents
Unreadable(n, p, k) ==
    /\ kind = k /\ target = [i \in 1..n |-> i]
    /\ denied \in {0} \cup {i \in 1..n : k[i] = "dir"}
    /\ rootExists = TRUE
    /\ rootName = DefaultRoot /\ indent0 = DefaultIndent
Linked(n, p, k) ==
    /\ n < MaxNodes
    /\ \E i \in {j \in 1..n : k[j] = "file"} : \E t \in Ancestors(p, i) :
         /\ kind = [k EXCEPT ![i] = "link"]
         /\ target = [j \in 1..n |-> IF j = i THEN t ELSE j]
    /\ denied = NoNode
    /\ rootExists = TRUE
    /\ rootName = DefaultRoot /\ indent0 = DefaultIndent

Init ==
    /\ \E n \in 0..MaxNodes :
         /\ nodeCount = n
         /\ \E p \in ParentFns(n) :
              /\ parent = p
              /\ name \in NameFns(n, p)
              /\ \E k \in KindFns(n, p) :
                   \/ Plain(n, p, k)
                   \/ OtherRoot(n, p, k)
                   \/ MissingRoot(n, p, k)
                   \/ Unreadable(n, p, k)
                   \/ Linked(n, p, k)
    /\ stack = << Frame(<<rootName>>, indent0) >>
    /\ pc = "running"
    /\ out = <<>>
    /\ trace = <<>>
    /\ maxDepth = 1
    /\ steps = 0
    /\ run = 1
    /\ prev = <<>>
    /\ prevPc = "none"

\* ----------------------------------------------------------------- actions
Top == stack[Len(stack)]
SetTop(f) == [stack EXCEPT ![Len(stack)] = f]
Pop == SubSeq(stack, 1, Len(stack) - 1)

\* the hidden check applied to the argument of the call as well
PrintHeaderUnlessHidden ==
    /\ pc = "running" /\ Top.at = "header"
    /\ IF IsHidden(Basename(Abspath(Top.path)))
       THEN /\ stack' = Pop
            /\ pc' = IF Len(stack) = 1 THEN "done" ELSE "running"
            /\ UNCHANGED <<out, trace>>
       ELSE /\ out' = Append(out, HeaderLine(Top.path, Top.indent))
            /\ trace' = Append(trace, Top.path)
            /\ stack' = SetTop([Top EXCEPT !.at = "list"])
            /\ pc' = pc
    /\ steps' = steps + 1
    /\ UNCHANGED <<fsvars, maxDepth, run, prev, prevPc>>

\* line 8: print the header of the directory being visited
PrintHeader ==
    /\ pc = "running" /\ Top.at = "header"
    /\ out' = Append(out, HeaderLine(Top.path, Top.indent))
    /\ trace' = Append(trace, Top.path)
    /\ stack' = SetTop([Top EXCEPT !.at = "list"])
    /\ steps' = steps + 1
    /\ UNCHANGED <<fsvars, pc, maxDepth, run, prev, prevPc>>

\* line 11: os.listdir succeeds, in whatever order the file system enumerates
ListDir ==
    /\ pc = "running" /\ Top.at = "list"
    /\ ~ListdirRaises(Top.path)
    /\ \E listing \in Perms(ListdirNames(Top.path)) :
         stack' = SetTop([Top EXCEPT !.at = "loop", !.items = SortedItems(listing)])
    /\ steps' = steps + 1
    /\ UNCHANGED <<fsvars, pc, out, trace, maxDepth, run, prev, prevPc>>

\* line 11: os.listdir raises
ListDirFails ==
    /\ pc = "running" /\ Top.at = "list"
    /\ ListdirRaises(Top.path)
    /\ pc' = "raising"
    /\ steps' = steps + 1
    /\ UNCHANGED <<fsvars, stack, out, trace, maxDepth, run, prev, prevPc>>

Item == Top.items[1]
ItemPath == Join(Top.path, Item)
InLoop == pc = "running" /\ Top.at = "loop" /\ Top.items # <<>>

\* lines 15-16: a hidden entry is skipped
SkipHidden ==
    /\ InLoop
    /\ IsHidden(Basename(ItemPath))
    /\ stack' = SetTop([Top EXCEPT !.items = Tail(@)])
    /\ steps' = steps + 1
    /\ UNCHANGED <<fsvars, pc, out, trace, maxDepth, run, prev, prevPc>>

\* the nested call is made but the loop does not move on to the next entry
RecurseKeepItem ==
    /\ InLoop
    /\ ~IsHidden(Basename(ItemPath))
    /\ IsDir(ItemPath)
    /\ Len(stack) < RecursionLimit
    /\ stack' = Append(stack, Frame(ItemPath, ChildIndent(Top.indent)))
    /\ maxDepth' = IF Len(stack) + 1 > maxDepth THEN Len(stack) + 1 ELSE maxDepth
    /\ steps' = steps + 1
    /\ UNCHANGED <<fsvars, pc, out, trace, run, prev, prevPc>>

\* lines 18-20: a directory is visited by a nested call
Recurse ==
    /\ InLoop
    /\ ~IsHidden(Basename(ItemPath))
    /\ IsDir(ItemPath)
    /\ Len(stack) < RecursionLimit
    /\ stack' = Append(SetTop([Top EXCEPT !.items = Tail(@)]),
                       Frame(ItemPath, ChildIndent(Top.indent)))
    /\ maxDepth' = IF Len(stack) + 1 > maxDepth THEN Len(stack) + 1 ELSE maxDepth
    /\ steps' = steps + 1
    /\ UNCHANGED <<fsvars, pc, out, trace, run, prev, prevPc>>

\* line 20: the nested call exceeds the recursion limit (RecursionError)
RecursionOverflow ==
    /\ InLoop
    /\ ~IsHidden(Basename(ItemPath))
    /\ IsDir(ItemPath)
    /\ Len(stack) >= RecursionLimit
    /\ pc' = "raising"
    /\ steps' = steps + 1
    /\ UNCHANGED <<fsvars, stack, out, trace, maxDepth, run, prev, prevPc>>

\* lines 21-23: a file is printed
PrintFile ==
    /\ InLoop
    /\ ~IsHidden(Basename(ItemPath))
    /\ ~IsDir(ItemPath)
    /\ out' = Append(out, FileLine(Top.indent, Item))
    /\ trace' = Append(trace, ItemPath)
    /\ stack' = SetTop([Top EXCEPT !.items = Tail(@)])
    /\ steps' = steps + 1
    /\ UNCHANGED <<fsvars, pc, maxDepth, run, prev, prevPc>>

\* line 11: the loop is exhausted and the call returns
Return ==
    /\ pc = "running" /\ Top.at = "loop" /\ Top.items = <<>>
    /\ stack' = Pop
    /\ pc' = IF Len(stack) = 1 THEN "done" ELSE "running"
    /\ steps' = steps + 1
    /\ UNCHANGED <<fsvars, out, trace, maxDepth, run, prev, prevPc>>

\* a handler that swallows the exception and lets the caller go on
UnwindCaught ==
    /\ pc = "raising"
    /\ stack' = Pop
    /\ pc' = IF Len(stack) = 1 THEN "error" ELSE "running"
    /\ steps' = steps + 1
    /\ UNCHANGED <<fsvars, out, trace, maxDepth, run, prev, prevPc>>

\* no try/except anywhere: the exception leaves one call after the other
Unwind ==
    /\ pc = "raising"
    /\ stack' = Pop
    /\ pc' = IF Len(stack) = 1 THEN "error" ELSE "raising"
    /\ steps' = steps + 1
    /\ UNCHANGED <<fsvars, out, trace, maxDepth, run, prev, prevPc>>

\* the program is run a second time on the same, unchanged tree
Rerun ==
    /\ pc \in {"done", "error"} /\ run = 1
    /\ prev' = out
    /\ prevPc' = pc
    /\ run' = 2
    /\ stack' = << Frame(<<rootName>>, indent0) >>
    /\ pc' = "running"
    /\ out' = <<>>
    /\ trace' = <<>>
    /\ maxDepth' = 1
    /\ steps' = 0
    /\ UNCHANGED fsvars

Next ==
    \/ PrintHeader
    \/ ListDir
    \/ ListDirFails
    \/ SkipHidden
    \/ Recurse
    \/ RecursionOverflow
    \/ PrintFile
    \/ Return
    \/ Unwind
    \/ Rerun

Spec == Init /\ [][Next]_vars


\* -------------------------------------------------------------- properties
StartsWithDot(nm) == nm # <<>> /\ nm[1] = 46
IsPrefix(p, q) == Len(p) <= Len(q) /\ SubSeq(q, 1, Len(p)) = p
ProperPrefix(p, q) == Len(p) < Len(q) /\ IsPrefix(p, q)
Siblings(p, q) == Len(p) = Len(q) /\ Len(p) >= 2 /\ Front(p) = Front(q)
Lines == 1..Len(trace)
Ended == pc \in {"done", "error"}

\* a printed line taken apart: '|', a run of '-', the name
RECURSIVE DropDashes(_)
DropDashes(s) == IF s # <<>> /\ s[1] = 45 THEN DropDashes(Tail(s)) ELSE s
LineName(line) == DropDashes(Tail(line))
DashCount(line) == Len(line) - 1 - Len(LineName(line))

\* the tree itself, entry by entry
RECURSIVE NodeDepth(_)
NodeDepth(i) == IF i = 0 THEN 0 ELSE 1 + NodeDepth(parent[i])
RECURSIVE VisibleNode(_)
VisibleNode(i) == i = 0 \/ (~StartsWithDot(name[i]) /\ VisibleNode(parent[i]))
VisibleChildren(d) == {c \in Children(d) : ~StartsWithDot(name[c])}
Acyclic == \A i \in Nodes : kind[i] # "link"
CycleVisible == \E i \in Nodes : kind[i] = "link" /\ VisibleNode(i)
Max(S) == CHOOSE m \in S : \A x \in S : x <= m
MaxVisibleDirDepth ==
    Max({0} \cup {NodeDepth(i) : i \in {j \in Nodes : kind[j] = "dir" /\ VisibleNode(j)}})

\* one pass over the tree: header, listing and return for the root and for each
\* visible directory, one step for each entry of a directory that is listed
VisibleDirs == {0} \cup {j \in Nodes : kind[j] = "dir" /\ VisibleNode(j)}
RECURSIVE SumChildren(_)
SumChildren(S) ==
    IF S = {} THEN 0
    ELSE LET d == CHOOSE x \in S : TRUE IN Cardinality(Children(d)) + SumChildren(S \ {d})
SinglePass == 3 * Cardinality(VisibleDirs) + SumChildren(VisibleDirs)

\* every path the walk can reach from the root through non-hidden names
RECURSIVE PathsUnder(_)
PathsUnder(p) ==
    {p} \cup
    (IF KindOf(Lookup(p)) = "dir"
     THEN UNION {PathsUnder(Append(p, name[c])) : c \in VisibleChildren(Lookup(p))}
     ELSE {})
VisiblePaths == PathsUnder(<<rootName>>)

\* C1: no line printed for an entry met during iteration carries a name that
\* starts with '.', and no printed entry lies below a hidden directory.
C1_NoHiddenEntryPrinted ==
    /\ Len(out) = Len(trace)
    /\ \A i \in Lines :
         /\ \A j \in 2..Len(trace[i]) : ~StartsWithDot(trace[i][j])
         /\ Len(trace[i]) >= 2 => ~StartsWithDot(LineName(out[i]))
C1_Witness ==
    /\ pc = "done" /\ Len(out) >= 2
    /\ \E d \in Nodes : kind[d] = "dir" /\ parent[d] = 0 /\ StartsWithDot(name[d])
                        /\ \E c \in Children(d) : ~StartsWithDot(name[c])

\* C2 as stated: when the root path does not exist, nothing has been written
\* by the time the error propagates.
C2_NoOutputOnMissingRoot ==
    ~rootExists =>
        /\ pc # "done"
        /\ pc \in {"raising", "error"} => out = <<>>
\* C2 amended: a missing root path never completes normally; the error is
\* raised after exactly one line, the header '|' + '-' * indent + base name.
C2_HeaderThenError ==
    ~rootExists =>
        /\ pc # "done"
        /\ pc \in {"raising", "error"} =>
             out = << <<124>> \o [i \in 1..indent0 |-> 45] \o rootName >>
C2_Witness == ~rootExists /\ pc = "error" /\ Len(out) = 1 /\ indent0 = 2

\* C3: every line is '|', then indent + 4 * depth dashes, then the entry's
\* name, for header lines and file lines alike.
C3_IndentIsFourTimesDepth ==
    /\ Len(out) = Len(trace)
    /\ \A i \in Lines :
         /\ out[i][1] = 124
         /\ LineName(out[i]) = Last(trace[i])
         /\ DashCount(out[i]) = indent0 + 4 * (Len(trace[i]) - 1)
C3_Witness ==
    /\ pc = "done"
    /\ \E i, j \in Lines :
         /\ Len(trace[i]) = 3 /\ ~IsDir(trace[i]) /\ DashCount(out[i]) = indent0 + 8
         /\ Len(trace[j]) = 2 /\ IsDir(trace[j]) /\ DashCount(out[j]) = indent0 + 4
    /\ indent0 = 2

\* C4: the lines of two children of one directory appear in the
\* lexicographic order of their names, files and directories alike.
C4_SiblingsInNameOrder ==
    \A i, j \in Lines :
        (i < j /\ Siblings(trace[i], trace[j])) => StrLess(Last(trace[i]), Last(trace[j]))
C4_Witness ==
    /\ pc = "done"
    /\ \E i, j, k \in Lines :
         /\ i < j /\ j < k
         /\ Siblings(trace[i], trace[j]) /\ Siblings(trace[j], trace[k])
         /\ ~IsDir(trace[i]) /\ IsDir(trace[j]) /\ ~IsDir(trace[k])

\* C5: a directory with no entries, or with hidden entries only, gets exactly
\* one line, its header, and no line for anything below it.
C5_EmptyDirectoryOneLine ==
    \A i \in Lines :
        (KindOf(Lookup(trace[i])) = "dir" /\ VisibleChildren(Lookup(trace[i])) = {}) =>
            /\ \A j \in Lines : ~ProperPrefix(trace[i], trace[j])
            /\ \A j \in Lines : trace[j] = trace[i] => j = i
            /\ (pc = "done" /\ Len(trace[i]) = 1) => Len(out) = 1
C5_Witness ==
    /\ pc = "done"
    /\ \E i, j \in Lines :
         /\ KindOf(Lookup(trace[i])) = "dir" /\ Children(Lookup(trace[i])) = {}
         /\ KindOf(Lookup(trace[j])) = "dir" /\ Children(Lookup(trace[j])) # {}
         /\ VisibleChildren(Lookup(trace[j])) = {}

\* C6: once an error is raised nothing more is printed, no call resumes, each
\* step takes the exception out of one more call, and the run ends in error.
C6_ErrorAbortsTraversal ==
    /\ [][pc = "raising" =>
            /\ out' = out
            /\ Len(stack') = Len(stack) - 1
            /\ pc' = IF Len(stack) = 1 THEN "error" ELSE "raising"]_vars
    /\ [][pc = "error" => run' # run]_vars
C6_Witness ==
    /\ pc = "error" /\ stack = <<>>
    /\ denied \in Nodes /\ NodeDepth(denied) = 2 /\ VisibleNode(denied)
    /\ out[Len(out)] = <<124>> \o [i \in 1..8 |-> 45] \o name[denied]
    /\ \E s \in Children(0) : ~StartsWithDot(name[s]) /\ StrLess(name[parent[denied]], name[s])

\* C7: a second run on the unchanged tree ends the same way with the same
\* output, whatever order the file system enumerates the entries in.
C7_RerunIdentical ==
    (run = 2 /\ Ended) => (out = prev /\ pc = prevPc)
C7_Witness ==
    /\ run = 2 /\ pc = "done" /\ Len(out) >= 4
    /\ \E d \in Nodes : VisibleNode(d) /\ Cardinality(VisibleChildren(d)) >= 2

\* C8: a hidden root is not filtered: its header is the first line and its
\* visible children are traversed.
C8_HiddenRootPrinted ==
    StartsWithDot(rootName) =>
        /\ (Len(stack) = 1 /\ stack[1].at # "header") =>
               (Len(out) >= 1 /\ out[1] = <<124>> \o [i \in 1..indent0 |-> 45] \o rootName)
        /\ pc = "done" =>
               /\ Len(out) >= 1
               /\ \A c \in VisibleChildren(0) :
                    \E i \in Lines : trace[i] = <<rootName, name[c]>>
C8_Witness ==
    /\ StartsWithDot(rootName) /\ pc = "done" /\ Len(out) >= 3
    /\ \E c \in VisibleChildren(0) : kind[c] = "dir"

\* C9: a successful traversal prints every reachable path exactly once, a
\* directory before everything below it, each subtree in one block.
C9_PreOrderListing ==
    pc = "done" =>
        /\ Len(out) = Len(trace)
        /\ Len(trace) = Cardinality(VisiblePaths)
        /\ {trace[i] : i \in Lines} = VisiblePaths
        /\ trace[1] = <<rootName>>
        /\ \A j \in Lines : \A n \in 1..(Len(trace[j]) - 1) :
             \E i \in 1..(j - 1) : trace[i] = SubSeq(trace[j], 1, n)
        /\ \A i, j, k \in Lines : (i < k /\ k < j) =>
             \A n \in 1..Len(trace[i]) :
                 LET p == SubSeq(trace[i], 1, n) IN
                 IsPrefix(p, trace[j]) => IsPrefix(p, trace[k])
C9_Witness ==
    /\ pc = "done" /\ Len(out) >= 4
    /\ \E i, j, k \in Lines :
         /\ i < j /\ j < k
         /\ IsDir(trace[i]) /\ ProperPrefix(trace[i], trace[j])
         /\ Siblings(trace[i], trace[k])

\* Without a link the walk is a single pass: three steps for each directory
\* listed and one for each entry found in it, some call being active until it
\* ends, the number of nested calls being the nesting depth of the visible
\* directories.
AcyclicSinglePass ==
    /\ IF Ended THEN stack = <<>> ELSE Len(stack) >= 1 /\ pc \in {"running", "raising"}
    /\ Acyclic =>
         /\ steps <= SinglePass
         /\ Len(stack) <= 1 + MaxVisibleDirDepth
         /\ pc = "done" => (steps = SinglePass /\ maxDepth = 1 + MaxVisibleDirDepth)
         /\ pc = "error" => (~rootExists \/ denied # NoNode)

====
